---------------------------- MODULE Spec2Model ----------------------------
(***************************************************************************)
(* A model of src/main.rs: the host thread of the Mandelbrot renderer and  *)
(* the device that executes the one command buffer it submits.             *)
(*                                                                         *)
(* The host is a straight line of statements, each of which either         *)
(* succeeds or panics (expect / unwrap).  The device retires the commands  *)
(* of a flushed command buffer in recorded order and then signals the      *)
(* fence; it can also be lost.                                             *)
(***************************************************************************)
EXTENDS Integers, Sequences, FiniteSets, TLC

\* ------------------------------------------------------------ bounds

\* Most devices the platform enumerates.
MaxDevices == 2

\* Largest scaled-down image side drawn by InitDims.
MaxDim == 17

\* ------------------------------------------------- program constants

NPIXELS_DIM0 == 2048

NPIXELS_DIM1 == 2048

\* layout(local_size_x = 8, local_size_y = 8, local_size_z = 1)
LocalSizeX == 8

LocalSizeY == 8

LocalSizeZ == 1

\* the divisor of `NPIXELS_DIM0 / 8` and `NPIXELS_DIM1 / 8` in dispatch
WorkgroupDivisor == 8

\* the third workgroup count of the dispatch
WorkgroupsZ == 1

\* the factor of `NPIXELS_DIM0*NPIXELS_DIM1*4`
BufferBytesPerPixel == 4

\* Format::R8G8B8A8Unorm and Rgba<u8>: four one-byte channels
FormatBytesPerPixel == 4

\* ------------------------------------------- fixed-width arithmetic
\* A number is a sequence of base-256 digits, least significant first, so
\* that products beyond 2^31 can be computed and a u32 wrap observed.

\* `const NPIXELS_DIM0: u32`: four bytes
U32Digits == 4

Min(a, b) == IF a <= b THEN a ELSE b

ToDigits(n, k) == [i \in 1..k |-> (n \div (256 ^ (i - 1))) % 256]

Pad(d, k) == [i \in 1..k |-> IF i <= Len(d) THEN d[i] ELSE 0]

RECURSIVE ColumnSum(_, _, _, _)
ColumnSum(a, b, k, i) ==
    IF i > Len(a) THEN 0
    ELSE (IF k - i + 1 >= 1 /\ k - i + 1 <= Len(b) THEN a[i] * b[k - i + 1] ELSE 0)
         + ColumnSum(a, b, k, i + 1)

RECURSIVE CarryInto(_, _, _)
CarryInto(a, b, k) ==
    IF k = 1 THEN 0
    ELSE (ColumnSum(a, b, k - 1, 1) + CarryInto(a, b, k - 1)) \div 256

RECURSIVE Carry(_, _, _, _)
Carry(a, b, k, n) ==
    \* digits k..n of a*b, preceded by the carry into digit k
    IF k > n THEN <<>>
    ELSE LET below == IF k = 1 THEN 0 ELSE CarryInto(a, b, k)
             s == ColumnSum(a, b, k, 1) + below
         IN  <<s % 256>> \o Carry(a, b, k + 1, n)

\* The exact product, Len(a) + Len(b) digits.
MulExact(a, b) == Carry(a, b, 1, Len(a) + Len(b))

IsZero(d) == \A i \in 1..Len(d) : d[i] = 0

\* u32 * u32 as the machine computes it without overflow checks: the low 32
\* bits, and whether bits were lost.
WrappingMulU32(a, b) ==
    LET full == MulExact(Pad(a, U32Digits), Pad(b, U32Digits))
    IN  [val |-> SubSeq(full, 1, U32Digits),
         wrapped |-> ~IsZero(SubSeq(full, U32Digits + 1, Len(full)))]

RECURSIVE LeqFrom(_, _, _)
LeqFrom(a, b, i) ==
    IF i = 0 THEN TRUE
    ELSE IF a[i] < b[i] THEN TRUE
    ELSE IF a[i] > b[i] THEN FALSE
    ELSE LeqFrom(a, b, i - 1)

\* a <= b for digit sequences of any lengths
Leq(a, b) ==
    LET n == IF Len(a) >= Len(b) THEN Len(a) ELSE Len(b)
    IN  LeqFrom(Pad(a, n), Pad(b, n), n)

SameNumber(a, b) == Leq(a, b) /\ Leq(b, a)

\* --------------------------------------------------- device selection

UpperChars ==
    <<"A", "B", "C", "D", "E", "F", "G", "H", "I", "J", "K", "L", "M",
      "N", "O", "P", "Q", "R", "S", "T", "U", "V", "W", "X", "Y", "Z">>

LowerChars ==
    <<"a", "b", "c", "d", "e", "f", "g", "h", "i", "j", "k", "l", "m",
      "n", "o", "p", "q", "r", "s", "t", "u", "v", "w", "x", "y", "z">>

\* str::to_ascii_lowercase, on a name held as a sequence of characters
ToAsciiLowercase(s) ==
    [i \in 1..Len(s) |->
        IF \E k \in 1..Len(UpperChars) : UpperChars[k] = s[i]
        THEN LowerChars[CHOOSE k \in 1..Len(UpperChars) : UpperChars[k] = s[i]]
        ELSE s[i]]

\* str::contains
Contains(hay, needle) ==
    \E i \in 0..(Len(hay) - Len(needle)) : SubSeq(hay, i + 1, i + Len(needle)) = needle

\* the literal "quadro"
DeviceFilter == <<"q", "u", "a", "d", "r", "o">>

\* The names a device may report, and the compute support of its queue
\* families, in family order.
DeviceNames == {<<"Q", "U", "A", "D", "R", "O">>, <<"G", "T", "X">>}

FamilyChoices == {<<FALSE, TRUE>>, <<FALSE>>}

\* What PhysicalDevice::enumerate can yield: named or unnamed devices.
DeviceKinds ==
    {[named |-> TRUE, name |-> n, families |-> f] : n \in DeviceNames, f \in FamilyChoices}
    \cup {[named |-> FALSE, name |-> <<>>, families |-> f] : f \in FamilyChoices}

RECURSIVE SeqsUpTo(_, _)
SeqsUpTo(S, n) ==
    IF n = 0 THEN {<<>>}
    ELSE LET shorter == SeqsUpTo(S, n - 1)
         IN  shorter \cup {Append(q, x) : q \in shorter, x \in S}

\* The closure of `find`: panics on an unnamed device, else tests the name.
\* The result of the search from device i on: the index found, 0 for None,
\* -1 for the panic of `expect("encountered unnamed device")`.
RECURSIVE FindDevice(_, _)
FindDevice(devs, i) ==
    IF i > Len(devs) THEN 0
    ELSE IF ~devs[i].named THEN -1
    ELSE IF Contains(ToAsciiLowercase(devs[i].name), DeviceFilter) THEN i
    ELSE FindDevice(devs, i + 1)

\* queue_families().find(|&q| q.supports_compute()): the first index, or 0
RECURSIVE FindFamily(_, _)
FindFamily(fams, i) ==
    IF i > Len(fams) THEN 0
    ELSE IF fams[i] THEN i
    ELSE FindFamily(fams, i + 1)

\* ------------------------------------------------------ the host's plan

\* main with a second builder created after the wait, for a second recording.
StagesRerecord ==
    <<"instance", "list_devices", "select_device", "queue_family", "device",
      "image", "shader", "pipeline", "descriptor_set", "buffer",
      "builder", "record_dispatch", "record_copy", "build",
      "execute", "flush", "wait", "builder", "read", "from_raw", "save", "exit">>

\* main with the read moved in front of the wait.
StagesReadBeforeWait ==
    <<"instance", "list_devices", "select_device", "queue_family", "device",
      "image", "shader", "pipeline", "descriptor_set", "buffer",
      "builder", "record_dispatch", "record_copy", "build",
      "execute", "flush", "read", "wait", "from_raw", "save", "exit">>

\* main with the buffer allocated only after the builder exists.
StagesBufferAfterBuilder ==
    <<"instance", "list_devices", "select_device", "queue_family", "device",
      "image", "shader", "pipeline", "descriptor_set",
      "builder", "buffer", "record_dispatch", "record_copy", "build",
      "execute", "flush", "wait", "read", "from_raw", "save", "exit">>

\* The statements of main, in program order.
Stages ==
    <<"instance", "list_devices", "select_device", "queue_family", "device",
      "image", "shader", "pipeline", "descriptor_set", "buffer",
      "builder", "record_dispatch", "record_copy", "build",
      "execute", "flush", "wait", "read", "from_raw", "save", "exit">>

\* A failure that is swallowed: the host goes on with the next statement.
AfterFailureIgnored(p) == [pc |-> p + 1, status |-> "running"]

\* What a failed expect / unwrap does to the host: the panic ends the run at
\* the failing statement.
AfterFailure(p) == [pc |-> p, status |-> "aborted"]

\* CommandBufferUsage::MultipleSubmit in its place
UsageMultipleSubmit == "MultipleSubmit"

\* CommandBufferUsage::OneTimeSubmit
Usage == "OneTimeSubmit"

\* A divisor that does not match the shader's local size.
DispatchGridWrongDivisor(d) ==
    <<d[1] \div (2 * WorkgroupDivisor), d[2] \div (2 * WorkgroupDivisor), WorkgroupsZ>>

\* [NPIXELS_DIM0 / 8, NPIXELS_DIM1 / 8, 1], in unsigned integer division
DispatchGrid(d) == <<d[1] \div WorkgroupDivisor, d[2] \div WorkgroupDivisor, WorkgroupsZ>>

\* One byte per pixel: the factor 4 forgotten.
BufferLenPixels(d) ==
    LET wh == WrappingMulU32(ToDigits(d[1], U32Digits), ToDigits(d[2], U32Digits))
    IN  [val |-> wh.val, wrapped |-> wh.wrapped]

\* NPIXELS_DIM0*NPIXELS_DIM1*4 in u32: the length of the zero iterator
BufferLen(d) ==
    LET wh == WrappingMulU32(ToDigits(d[1], U32Digits), ToDigits(d[2], U32Digits))
        n  == WrappingMulU32(wh.val, ToDigits(BufferBytesPerPixel, U32Digits))
    IN  [val |-> n.val, wrapped |-> wh.wrapped \/ n.wrapped]

\* The bytes of a tightly packed width x height image of the format, exact.
ImageBytes(d) ==
    MulExact(MulExact(ToDigits(d[1], U32Digits), ToDigits(d[2], U32Digits)),
             ToDigits(FormatBytesPerPixel, U32Digits))

\* The resources a command list references (the clones handed to it).
Referenced(cmds) ==
    IF cmds = <<>> THEN {}
    ELSE UNION {cmds[i].uses : i \in 1..Len(cmds)}

\* The copy recorded in front of the dispatch.
RecordedOpsReversed == <<"copy", "dispatch">>

\* The operations the builder is given, in recording order.
RecordedOps == <<"dispatch", "copy">>

\* ---------------------------------------------------------------- state

VARIABLES
    dims,        \* <<width, height>> of the image
    devices,     \* what the platform enumerates
    pc,          \* index into Stages of the statement the host is at
    status,      \* "running" | "aborted" | "done"
    trace,       \* the statements completed, in order
    physical,    \* index of the selected device, 0 before
    family,      \* index of the selected queue family, 0 before
    alive,       \* the GPU resources that exist
    seq,         \* the command sequence
    fence,       \* the completion token: "none" | "pending" | "signaled"
    retired,     \* the commands of the sequence the device has retired
    signals,     \* how often the token went from pending to signaled
    deviceLost,  \* the device was lost while executing
    image,       \* the storage image
    buf,         \* the host-visible buffer
    view         \* what the host read back

vars ==
    <<dims, devices, pc, status, trace, physical, family, alive, seq, fence,
      retired, signals, deviceLost, image, buf, view>>

ctl == <<pc, status, trace>>

env == <<dims, devices>>

sel == <<physical, family>>

gpu == <<fence, retired, signals, deviceLost>>

data == <<image, buf, view>>

NoContent == [kind |-> "none", written |-> <<0, 0>>]

\* The state every run starts from, but for the environment.
InitRun ==
    /\ pc = 1
    /\ status = "running"
    /\ trace = <<>>
    /\ physical = 0
    /\ family = 0
    /\ alive = {}
    /\ seq = [state |-> "none", cmds |-> <<>>, executed |-> FALSE, usage |-> Usage]
    /\ fence = "none"
    /\ retired = 0
    /\ signals = 0
    /\ deviceLost = FALSE
    /\ image = [extent |-> <<0, 0>>, bytes |-> ToDigits(0, U32Digits),
                written |-> <<0, 0>>, outside |-> FALSE]
    /\ buf = [len |-> ToDigits(0, U32Digits), wrapped |-> FALSE, overrun |-> FALSE,
              content |-> NoContent]
    /\ view = [read |-> FALSE, content |-> NoContent, fenceAtRead |-> "none",
               pixels |-> <<0, 0>>]

\* The program as written: the image is NPIXELS_DIM0 x NPIXELS_DIM1, on any
\* machine.
Init ==
    /\ dims = <<NPIXELS_DIM0, NPIXELS_DIM1>>
    /\ devices \in SeqsUpTo(DeviceKinds, MaxDevices)
    /\ InitRun

\* ----------------------------------------------------- host statements

\* The host is at statement `name`.
At(name) == status = "running" /\ pc <= Len(Stages) /\ Stages[pc] = name

\* The statement completed: the host moves to the next one.
Proceed(name) ==
    /\ pc' = pc + 1
    /\ status' = "running"
    /\ trace' = Append(trace, name)

\* What dropping the host's handles leaves alive: a flushed, unsignaled
\* sequence keeps the clones it was handed (image.clone(), buf.clone()).
Release(al, f, cmds) == IF f = "pending" THEN al \cap Referenced(cmds) ELSE {}

\* expect / unwrap on an Err or None: the panic unwinds main.
Panic ==
    LET a == AfterFailure(pc)
    IN  /\ pc' = a.pc
        /\ status' = a.status
        /\ trace' = trace
        /\ alive' = IF a.status = "aborted" THEN Release(alive, fence, seq.cmds) ELSE alive

\* A statement whose only modelled outcome is success or failure.
Simple(name) ==
    /\ At(name)
    /\ \E ok \in BOOLEAN :
         IF ok THEN Proceed(name) /\ alive' = alive ELSE Panic
    /\ UNCHANGED <<env, sel, seq, gpu, data>>

\* Instance::new(...).expect("failed to create instance")
CreateInstance == Simple("instance")

\* for dev in PhysicalDevice::enumerate(&instance) { println!(name.expect(..)) }
ListDevices ==
    /\ At("list_devices")
    /\ IF \E i \in 1..Len(devices) : ~devices[i].named
       THEN Panic
       ELSE Proceed("list_devices") /\ alive' = alive
    /\ UNCHANGED <<env, sel, seq, gpu, data>>

\* PhysicalDevice::enumerate(&instance).find(..).expect("failed to find specified device")
SelectDevice ==
    /\ At("select_device")
    /\ LET found == FindDevice(devices, 1)
       IN  IF found <= 0
           THEN Panic /\ physical' = physical
           ELSE Proceed("select_device") /\ alive' = alive /\ physical' = found
    /\ UNCHANGED <<env, family, seq, gpu, data>>

\* physical_device.queue_families().find(..).expect("failed to find a compute queue family")
SelectQueueFamily ==
    /\ At("queue_family")
    /\ LET found == IF physical = 0 THEN 0 ELSE FindFamily(devices[physical].families, 1)
       IN  IF found = 0
           THEN Panic /\ family' = family
           ELSE Proceed("queue_family") /\ alive' = alive /\ family' = found
    /\ UNCHANGED <<env, physical, seq, gpu, data>>

\* Device::new(..).expect("failed to create device"); queues.next().unwrap()
CreateDevice == Simple("device")

\* StorageImage::new(device, Dim2d { width, height, array_layers: 1 }, R8G8B8A8Unorm, ..).unwrap()
CreateImage ==
    /\ At("image")
    /\ \E ok \in BOOLEAN :
         IF ok
         THEN /\ Proceed("image")
              /\ alive' = alive \cup {"image"}
              /\ image' = [extent |-> dims, bytes |-> ImageBytes(dims),
                            written |-> <<0, 0>>, outside |-> FALSE]
         ELSE Panic /\ image' = image
    /\ UNCHANGED <<env, sel, seq, gpu, buf, view>>

\* cs::Shader::load(device.clone()).expect("failed to create shader module")
LoadShader == Simple("shader")

\* ComputePipeline::new(..).expect("failed to create compute pipeline")
CreatePipeline == Simple("pipeline")

\* PersistentDescriptorSet::start(layout).add_image(ImageView::new(image.clone())..)..build().unwrap()
CreateDescriptorSet == Simple("descriptor_set")

\* CpuAccessibleBuffer::from_iter(.., (0 .. NPIXELS_DIM0*NPIXELS_DIM1*4).map(|_| 0u8)).expect(..)
CreateBuffer ==
    /\ At("buffer")
    /\ \E ok \in BOOLEAN :
         IF ok
         THEN /\ Proceed("buffer")
              /\ alive' = alive \cup {"buf"}
              /\ buf' = [len |-> BufferLen(dims).val, wrapped |-> BufferLen(dims).wrapped,
                         overrun |-> FALSE,
                         content |-> [kind |-> "zeros", written |-> <<0, 0>>]]
         ELSE Panic /\ buf' = buf
    /\ UNCHANGED <<env, sel, seq, gpu, image, view>>

\* AutoCommandBufferBuilder::primary(device, family, CommandBufferUsage::OneTimeSubmit).unwrap()
CreateBuilder ==
    /\ At("builder")
    /\ \E ok \in BOOLEAN :
         IF ok
         THEN /\ Proceed("builder")
              /\ alive' = alive
              /\ seq' = [state |-> "Recording", cmds |-> <<>>, executed |-> FALSE,
                         usage |-> Usage]
         ELSE Panic /\ seq' = seq
    /\ UNCHANGED <<env, sel, gpu, data>>

\* The command one builder call appends.
Command(op) ==
    IF op = "dispatch"
    THEN [op |-> "dispatch", grid |-> DispatchGrid(dims), uses |-> {"image"}]
    ELSE [op |-> "copy", grid |-> <<0, 0, 0>>, uses |-> {"image", "buf"}]

\* Appending to the builder: possible only while it is recording.
Record(name, op) ==
    /\ At(name)
    /\ \E ok \in BOOLEAN :
         IF ok /\ seq.state = "Recording"
         THEN /\ Proceed(name)
              /\ alive' = alive
              /\ seq' = [seq EXCEPT !.cmds = Append(@, Command(op))]
         ELSE Panic /\ seq' = seq
    /\ UNCHANGED <<env, sel, gpu, data>>

\* builder.dispatch([NPIXELS_DIM0 / 8, NPIXELS_DIM1 / 8, 1], pipeline, set, (), None).unwrap()
RecordDispatch == Record("record_dispatch", RecordedOps[1])

\* .copy_image_to_buffer(image.clone(), buf.clone()).unwrap()
RecordCopy == Record("record_copy", RecordedOps[2])

\* builder.build().expect("failed to build command buffer")
Build ==
    /\ At("build")
    /\ \E ok \in BOOLEAN :
         IF ok /\ seq.state = "Recording"
         THEN /\ Proceed("build")
              /\ alive' = alive
              /\ seq' = [seq EXCEPT !.state = "Sealed"]
         ELSE Panic /\ seq' = seq
    /\ UNCHANGED <<env, sel, gpu, data>>

\* execute on a command buffer: a one-time-submit buffer that was executed
\* already is refused and left as it is.
ExecuteResult(s) ==
    IF s.state \notin {"Sealed", "Submitted"}
    THEN [err |-> "NotSealed", seq |-> s]
    ELSE IF s.usage = "OneTimeSubmit" /\ s.executed
    THEN [err |-> "SequenceAlreadySubmitted", seq |-> s]
    ELSE [err |-> "", seq |-> [s EXCEPT !.executed = TRUE]]

\* command_buffer.execute(queue.clone()).expect("failed to execute command buffer")
Execute ==
    /\ At("execute")
    /\ LET r == ExecuteResult(seq)
       IN  \E ok \in BOOLEAN :
             IF ok /\ r.err = ""
             THEN /\ Proceed("execute")
                  /\ alive' = alive
                  /\ seq' = r.seq
             ELSE Panic /\ seq' = seq
    /\ UNCHANGED <<env, sel, gpu, data>>

\* finished.then_signal_fence_and_flush().unwrap(): the commands reach the
\* queue and the fence is pending.
Flush ==
    /\ At("flush")
    /\ \E ok \in BOOLEAN :
         IF ok /\ seq.executed
         THEN /\ Proceed("flush")
              /\ alive' = alive
              /\ seq' = [seq EXCEPT !.state = "Submitted"]
              /\ fence' = "pending"
              /\ retired' = 0
         ELSE Panic /\ seq' = seq /\ fence' = fence /\ retired' = retired
    /\ UNCHANGED <<env, sel, signals, deviceLost, data>>

\* A wait that returns Ok without the fence being signaled.
WaitOutcomesNoBlock(f, lost) ==
    IF f \in {"pending", "signaled"} /\ ~lost THEN {"ok"}
    ELSE IF f = "pending" /\ lost THEN {"err"}
    ELSE {}

\* wait(Some(timeout)): the timeout may elapse while the fence is pending.
WaitOutcomesTimeout(f, lost) ==
    IF f = "signaled" THEN {"ok"}
    ELSE IF f = "pending" THEN {"err"}
    ELSE {}

\* wait(None) on the fence: the outcomes it can return with in a state.  It
\* returns Ok once the fence is signaled, an error once the device is lost,
\* and does not return before.
WaitOutcomes(f, lost) ==
    IF f = "signaled" THEN {"ok"}
    ELSE IF f = "pending" /\ lost THEN {"err"}
    ELSE {}

\* .wait(None).unwrap()
Wait ==
    /\ At("wait")
    /\ \E r \in WaitOutcomes(fence, deviceLost) :
         IF r = "ok" THEN Proceed("wait") /\ alive' = alive ELSE Panic
    /\ UNCHANGED <<env, sel, seq, gpu, data>>

\* read on the host-visible buffer: refused while the sequence that writes
\* it has not signaled.
ReadResult(b, s, f) ==
    IF "buf" \in Referenced(s.cmds) /\ s.executed /\ f # "signaled"
    THEN [err |-> "ResourceNotMapped", content |-> NoContent]
    ELSE [err |-> "", content |-> b.content]

\* let buffer_content = buf.read().unwrap()
Read ==
    /\ At("read")
    /\ LET r == ReadResult(buf, seq, fence)
       IN  IF r.err = ""
           THEN /\ Proceed("read")
                /\ alive' = alive
                /\ view' = [view EXCEPT !.read = TRUE, !.content = r.content,
                                        !.fenceAtRead = fence]
           ELSE Panic /\ view' = view
    /\ UNCHANGED <<env, sel, seq, gpu, image, buf>>

\* ImageBuffer::<Rgba<u8>, _>::from_raw(NPIXELS_DIM0, NPIXELS_DIM1, &buffer_content[..]).unwrap():
\* Some when the slice holds at least width*height pixels of four bytes.
FromRaw ==
    /\ At("from_raw")
    /\ IF Leq(ImageBytes(dims), buf.len)
       THEN /\ Proceed("from_raw")
            /\ alive' = alive
            /\ view' = [view EXCEPT !.pixels = dims]
       ELSE Panic /\ view' = view
    /\ UNCHANGED <<env, sel, seq, gpu, image, buf>>

\* image.save("image.png").unwrap()
Save == Simple("save")

\* The closing brace of main: every local is dropped.
Exit ==
    /\ At("exit")
    /\ pc' = pc + 1
    /\ status' = "done"
    /\ trace' = Append(trace, "exit")
    /\ alive' = Release(alive, fence, seq.cmds)
    /\ UNCHANGED <<env, sel, seq, gpu, data>>

\* ------------------------------------------------------ the compute grid

\* The work-items of a dispatch: <<workgroup x, workgroup y, local x, local y>>
\* (local_size_z = 1 and one workgroup in z: a single layer).
WorkItems(grid) ==
    {<<wx, wy, lx, ly>> : wx \in 0..(grid[1] - 1), wy \in 0..(grid[2] - 1),
                          lx \in 0..(LocalSizeX - 1), ly \in 0..(LocalSizeY - 1)}

\* gl_GlobalInvocationID.xy, the pixel imageStore writes
GlobalInvocationID(wi) == <<wi[1] * LocalSizeX + wi[3], wi[2] * LocalSizeY + wi[4]>>

\* The texel coordinates of an image of extent d.
Pixels(d) == (0..(d[1] - 1)) \X (0..(d[2] - 1))

\* ----------------------------------------------------------- the device

\* What one retired command does to the image and the buffer.
Retire(cmd, img, b) ==
    IF cmd.op = "dispatch"
    THEN [image |-> [img EXCEPT
                       !.written = <<Min(cmd.grid[1] * LocalSizeX, img.extent[1]),
                                     Min(cmd.grid[2] * LocalSizeY, img.extent[2])>>,
                       !.outside = \/ cmd.grid[1] * LocalSizeX > img.extent[1]
                                   \/ cmd.grid[2] * LocalSizeY > img.extent[2]],
          buf |-> b]
    ELSE [image |-> img,
          buf |-> [b EXCEPT !.content = [kind |-> "image", written |-> img.written],
                            !.overrun = ~Leq(img.bytes, b.len)]]

\* The device retires the next command of the flushed sequence.
GpuRetire ==
    /\ fence = "pending"
    /\ ~deviceLost
    /\ retired < Len(seq.cmds)
    /\ LET r == Retire(seq.cmds[retired + 1], image, buf)
       IN  image' = r.image /\ buf' = r.buf
    /\ retired' = retired + 1
    /\ UNCHANGED <<env, ctl, sel, alive, seq, fence, signals, deviceLost, view>>

\* Every command has retired: the fence is signaled.
GpuSignal ==
    /\ fence = "pending"
    /\ ~deviceLost
    /\ retired = Len(seq.cmds)
    /\ fence' = "signaled"
    /\ signals' = signals + 1
    /\ UNCHANGED <<env, ctl, sel, alive, seq, retired, deviceLost, data>>

\* The device is lost while the sequence is in flight.
GpuLost ==
    /\ fence = "pending"
    /\ ~deviceLost
    /\ deviceLost' = TRUE
    /\ UNCHANGED <<env, ctl, sel, alive, seq, fence, retired, signals, data>>

Host ==
    \/ CreateInstance
    \/ ListDevices
    \/ SelectDevice
    \/ SelectQueueFamily
    \/ CreateDevice
    \/ CreateImage
    \/ LoadShader
    \/ CreatePipeline
    \/ CreateDescriptorSet
    \/ CreateBuffer
    \/ CreateBuilder
    \/ RecordDispatch
    \/ RecordCopy
    \/ Build
    \/ Execute
    \/ Flush
    \/ Wait
    \/ Read
    \/ FromRaw
    \/ Save
    \/ Exit

Gpu == GpuRetire \/ GpuSignal \/ GpuLost

Next == Host \/ Gpu

Spec == Init /\ [][Next]_vars

\* Fair device execution: the device keeps retiring and signaling while it
\* can, and a wait that can return does.
FairSpec == Spec /\ WF_vars(GpuRetire) /\ WF_vars(GpuSignal) /\ WF_vars(Wait)

\* The sides InitDims draws: scaled-down images, and the program's own.
DimChoices == (1..MaxDim) \cup {NPIXELS_DIM0, NPIXELS_DIM1}

\* The same program run for any image extent, on a machine with one
\* matching device.
InitDims ==
    /\ dims \in DimChoices \X DimChoices
    /\ devices = <<[named |-> TRUE, name |-> <<"Q", "U", "A", "D", "R", "O">>,
                    families |-> <<FALSE, TRUE>>]>>
    /\ InitRun

SpecDims == InitDims /\ [][Next]_vars

\* ------------------------------------------------------------- helpers

Range(q) == {q[i] : i \in 1..Len(q)}

Count(x, q) == Cardinality({i \in 1..Len(q) : q[i] = x})

\* i < j for the first completions of statements a and b
Before(a, b, q) ==
    \A j \in 1..Len(q) : q[j] = b => \E i \in 1..(j - 1) : q[i] = a

\* -------------------------------------------------------------- claims

\* C1: while the completion token of the submitted sequence is pending, the
\* storage image and the host-visible buffer it references exist and the
\* host has read nothing; the host reaches and performs its read only after
\* the wait has returned with the token signaled, and it drops the
\* resources only then.
C1_NoHostAccessWhilePending ==
    /\ fence = "pending" =>
         /\ Referenced(seq.cmds) = {"image", "buf"}
         /\ Referenced(seq.cmds) \subseteq alive
         /\ ~view.read
    /\ (At("read") \/ view.read) =>
         /\ fence = "signaled"
         /\ Before("wait", "read", Append(trace, "read"))
    /\ view.read => view.fenceAtRead = "signaled"
    /\ status = "done" => fence = "signaled" /\ alive = {}

C1_Witness ==
    /\ status = "done"
    /\ view.read
    /\ view.fenceAtRead = "signaled"
    /\ alive = {}

\* The place of the sequence / token pair in
\* Recording -> Sealed -> Submitted(pending) -> Submitted(signaled).
PairRank(s, f) ==
    CASE s.state = "none" -> 0
      [] s.state = "Recording" -> 1
      [] s.state = "Sealed" -> 2
      [] s.state = "Submitted" /\ f # "signaled" -> 3
      [] s.state = "Submitted" /\ f = "signaled" -> 4

\* C2: the sequence / token pair only moves forward, one state at a time,
\* through Recording, Sealed, Submitted(pending), Submitted(signaled);
\* signaled is terminal, and the sequence is recorded into by one builder,
\* executed once and flushed once.
C2_ForwardOnly ==
    [][ /\ PairRank(seq', fence') >= PairRank(seq, fence)
        /\ PairRank(seq', fence') <= PairRank(seq, fence) + 1
        /\ fence = "signaled" => fence' = "signaled" /\ seq' = seq
        /\ (fence' # "none") = (seq'.state = "Submitted")
        /\ Count("builder", trace') <= 1
        /\ Count("execute", trace') <= 1
        /\ Count("flush", trace') <= 1 ]_vars

C2_Witness ==
    /\ seq.state = "Submitted"
    /\ fence = "signaled"
    /\ Count("builder", trace) = 1
    /\ Count("flush", trace) = 1

\* C3: the sealed sequence is executed and flushed at most once, exactly once
\* in a run that ends normally; and in every state in which it has been
\* executed, executing it again is refused with SequenceAlreadySubmitted and
\* returns the sequence as it is.
C3_SubmittedOnce ==
    /\ Count("execute", trace) <= 1
    /\ Count("flush", trace) <= 1
    /\ seq.executed = (Count("execute", trace) = 1)
    /\ status = "done" => Count("execute", trace) = 1 /\ Count("flush", trace) = 1
    /\ seq.executed =>
         /\ ExecuteResult(seq).err = "SequenceAlreadySubmitted"
         /\ ExecuteResult(seq).seq = seq

C3_Witness ==
    /\ seq.executed
    /\ seq.state = "Submitted"
    /\ fence = "pending"
    /\ ExecuteResult(seq).err = "SequenceAlreadySubmitted"

\* C4: read on the buffer is refused with ResourceNotMapped in every state
\* where the sequence that writes it is executed and not signaled, and
\* succeeds once the token is signaled; the program is at its read only
\* after the wait, with the token signaled, so its read never fails.
C4_ReadAfterSignal ==
    /\ (seq.executed /\ fence # "signaled") =>
         ReadResult(buf, seq, fence).err = "ResourceNotMapped"
    /\ fence = "signaled" => ReadResult(buf, seq, fence).err = ""
    /\ At("read") => "wait" \in Range(trace) /\ ReadResult(buf, seq, fence).err = ""
    /\ (status = "aborted" /\ pc <= Len(Stages)) => Stages[pc] # "read"

C4_Witness ==
    /\ "read" \in Range(trace)
    /\ "wait" \in Range(trace)
    /\ view.read
    /\ ReadResult(buf, seq, fence).err = ""

\* C5: under fair device execution a pending token leads to the token being
\* signaled or to the host aborted on a lost device, and a host at the wait
\* leaves it; the host leaves the wait only with the token signaled (going
\* on) or the device lost (aborting), never with the token pending on a
\* working device.
C5_WaitReturns ==
    /\ (fence = "pending") ~> (fence = "signaled" \/ (status = "aborted" /\ deviceLost))
    /\ At("wait") ~> ~At("wait")
    /\ [][ (At("wait") /\ ~At("wait")') =>
             \/ fence = "signaled" /\ status' = "running"
             \/ fence = "pending" /\ deviceLost /\ status' = "aborted" ]_vars

C5_Witness ==
    /\ "wait" \in Range(trace)
    /\ fence = "signaled"
    /\ ~deviceLost
    /\ status = "running"

\* C6: a failing statement ends the run at that statement: it is not
\* recorded as completed, the host's position, selection, sequence, view
\* and resources never change afterwards, a token is never created
\* afterwards, every step of a running host completes exactly the statement
\* it is at, and no statement completes twice.
C6_FailureAborts ==
    [][ /\ status = "aborted" =>
             /\ UNCHANGED <<ctl, sel, seq, view, alive, env>>
             /\ fence = "none" => fence' = "none"
        /\ (status = "running" /\ status' = "aborted") =>
             /\ pc' = pc /\ trace' = trace
             /\ Stages[pc] \notin Range(trace)
             /\ UNCHANGED <<sel, seq, view, gpu>>
        /\ (status = "running" /\ ctl' # ctl /\ status' # "aborted") =>
             /\ pc' = pc + 1
             /\ trace' = Append(trace, Stages[pc])
        /\ \A n \in Range(trace') : Count(n, trace') = 1 ]_vars

C6_Witness ==
    /\ status = "aborted"
    /\ Stages[pc] = "pipeline"
    /\ "shader" \in Range(trace)
    /\ seq.state = "none"
    /\ fence = "none"

\* The order the claim gives the statements: selection, allocation,
\* pipeline building, recording, submission, waiting, readback.
ClaimedOrder(n) ==
    CASE n \in {"instance", "list_devices", "select_device", "queue_family", "device"} -> 1
      [] n \in {"image", "buffer"} -> 2
      [] n \in {"shader", "pipeline", "descriptor_set"} -> 3
      [] n \in {"builder", "record_dispatch", "record_copy", "build"} -> 4
      [] n \in {"execute", "flush"} -> 5
      [] n = "wait" -> 6
      [] n \in {"read", "from_raw", "save"} -> 7
      [] OTHER -> 8

\* The order with the buffer allocated after the pipeline objects.
AmendedOrder(n) ==
    CASE n \in {"instance", "list_devices", "select_device", "queue_family", "device"} -> 1
      [] n = "image" -> 2
      [] n \in {"shader", "pipeline", "descriptor_set"} -> 3
      [] n = "buffer" -> 4
      [] n \in {"builder", "record_dispatch", "record_copy", "build"} -> 5
      [] n \in {"execute", "flush"} -> 6
      [] n = "wait" -> 7
      [] n \in {"read", "from_raw", "save"} -> 8
      [] OTHER -> 9

\* C7 as claimed: the statements complete in the order selection, allocation,
\* pipeline building, recording, submission, waiting, readback, so that
\* every allocation is complete before the pipeline is built and before
\* recording starts.
C7_OrderAsClaimed ==
    /\ \A i, j \in 1..Len(trace) : i < j => ClaimedOrder(trace[i]) <= ClaimedOrder(trace[j])
    /\ (Range(trace) \cap {"shader", "pipeline", "descriptor_set"} # {}) =>
         {"image", "buffer"} \subseteq Range(trace)
    /\ "builder" \in Range(trace) => {"image", "buffer"} \subseteq Range(trace)

\* C7 amended: the statements complete in the order selection, image
\* allocation, pipeline building, buffer allocation, recording, submission,
\* waiting, readback; the image is allocated before the pipeline objects
\* are built and the buffer after them, both before recording starts; and
\* the host is one thread: the completed statements are those before its
\* position, each completed once.
C7_OrderAmended ==
    /\ \A i, j \in 1..Len(trace) : i < j => AmendedOrder(trace[i]) <= AmendedOrder(trace[j])
    /\ (Range(trace) \cap {"shader", "pipeline", "descriptor_set"} # {}) =>
         "image" \in Range(trace)
    /\ "buffer" \in Range(trace) =>
         {"image", "shader", "pipeline", "descriptor_set"} \subseteq Range(trace)
    /\ "builder" \in Range(trace) => {"image", "buffer"} \subseteq Range(trace)
    /\ Len(trace) = pc - 1
    /\ \A n \in Range(trace) : Count(n, trace) = 1
    /\ \A n \in Range(trace) : AmendedOrder(n) > 1 => "device" \in Range(trace)

C7_Witness ==
    /\ "record_copy" \in Range(trace)
    /\ {"image", "buffer", "pipeline"} \subseteq Range(trace)
    /\ Before("pipeline", "buffer", trace)
    /\ Before("buffer", "builder", trace)

\* C8: the token is signaled at most once and is signaled exactly when it
\* has been; it is signaled only with both recorded commands retired, the
\* dispatch first and the copy second; once the dispatch has retired the
\* whole image is written, the buffer holds image content only with the
\* copy retired after the dispatch, and what the host reads is the fully
\* written image, not the zeros the buffer was created with.
C8_SignalAfterRetire ==
    /\ signals <= 1
    /\ (fence = "signaled") = (signals = 1)
    /\ fence = "signaled" =>
         /\ retired = Len(seq.cmds)
         /\ Len(seq.cmds) = 2
         /\ seq.cmds[1].op = "dispatch"
         /\ seq.cmds[2].op = "copy"
    /\ retired >= 1 => image.written = image.extent
    /\ buf.content.kind = "image" =>
         /\ retired = 2
         /\ buf.content.written = image.extent
    /\ view.read => view.content = [kind |-> "image", written |-> dims]

C8_Witness ==
    /\ view.read
    /\ view.content = [kind |-> "image", written |-> dims]
    /\ signals = 1
    /\ retired = 2

\* Every pixel is written by exactly one work-item and no work-item falls
\* outside the image.
ExactCover(d, grid) ==
    LET items == WorkItems(grid)
        ids == {GlobalInvocationID(wi) : wi \in items}
    IN  /\ Cardinality(ids) = Cardinality(items)
        /\ ids = Pixels(d)

MultipleOfLocalSize(d) == d[1] % LocalSizeX = 0 /\ d[2] % LocalSizeY = 0

\* C9: for every image extent, the dispatched grid times the local size
\* 8x8x1 equals the extent exactly when both sides are multiples of 8, which
\* they are for NPIXELS_DIM0 x NPIXELS_DIM1; the grid the device executes is
\* that grid, and once the dispatch has retired the image is written
\* completely exactly in that case; on the scaled-down images, the
\* work-items write every pixel exactly once with none outside exactly in
\* that case, and the pixels they write inside the image are the written
\* region of the image.
C9_GridCoversImage ==
    LET g == DispatchGrid(dims)
    IN  /\ (/\ g[1] * LocalSizeX = dims[1]
            /\ g[2] * LocalSizeY = dims[2]
            /\ g[3] * LocalSizeZ = 1) <=> MultipleOfLocalSize(dims)
        /\ dims = <<NPIXELS_DIM0, NPIXELS_DIM1>> => MultipleOfLocalSize(dims)
        /\ (fence # "none" /\ retired >= 1) =>
             /\ seq.cmds[1].grid = g
             /\ (image.written = image.extent /\ ~image.outside) <=> MultipleOfLocalSize(dims)
        /\ (fence # "none" /\ retired = 1 /\ dims[1] <= MaxDim /\ dims[2] <= MaxDim) =>
             /\ ExactCover(dims, seq.cmds[1].grid) <=> MultipleOfLocalSize(dims)
             /\ {GlobalInvocationID(wi) : wi \in WorkItems(seq.cmds[1].grid)} \cap Pixels(dims)
                  = Pixels(image.written)

C9_Witness ==
    /\ dims = <<2 * LocalSizeX, LocalSizeY>>
    /\ retired = 1
    /\ seq.cmds[1].grid = <<2, 1, 1>>
    /\ image.written = dims
    /\ ExactCover(dims, seq.cmds[1].grid)

\* C10: the buffer is created with NPIXELS_DIM0 * NPIXELS_DIM1 * 4 bytes, the
\* u32 products not wrapping; that is the byte size of the tightly packed
\* image, so the copy does not overrun the buffer and leaves none of it
\* unwritten, and the view from_raw builds has width x height pixels of
\* four bytes that fill the buffer exactly.
C10_BufferMatchesImage ==
    /\ "buffer" \in Range(trace) =>
         /\ ~buf.wrapped
         /\ buf.len = ToDigits(NPIXELS_DIM0 * NPIXELS_DIM1 * 4, U32Digits)
         /\ SameNumber(buf.len, ImageBytes(dims))
    /\ buf.content.kind = "image" =>
         /\ ~buf.overrun
         /\ image.bytes = ImageBytes(image.extent)
         /\ SameNumber(buf.len, image.bytes)
    /\ (status = "aborted" /\ pc <= Len(Stages)) => Stages[pc] # "from_raw"
    /\ "from_raw" \in Range(trace) =>
         /\ view.pixels = <<NPIXELS_DIM0, NPIXELS_DIM1>>
         /\ SameNumber(MulExact(ToDigits(view.pixels[1] * view.pixels[2], U32Digits),
                                ToDigits(4, U32Digits)),
                       buf.len)

C10_Witness ==
    /\ "from_raw" \in Range(trace)
    /\ view.pixels = <<NPIXELS_DIM0, NPIXELS_DIM1>>
    /\ buf.content.kind = "image"
    /\ ~buf.overrun

=============================================================================
